---- MODULE Spec2Model ----
(***************************************************************************)
(* Web-to-messaging relay: the contact form's submit handler (Form         *)
(* Controller, src/unnamed/part_000) and the POST /api/send handler (Relay *)
(* Handler, src/server.js), with the messaging API as the environment.     *)
(*                                                                         *)
(* Strings that carry user data are sequences of one-character strings, so *)
(* that trim, template concatenation, join and line splitting are computed.*)
(* The fixed Cyrillic literals of the source are single tokens written in  *)
(* Latin transliteration.                                                  *)
(***************************************************************************)
EXTENDS Naturals, Sequences, FiniteSets, TLC

\* ------------------------------------------------------------------ bounds
\* handler invocations of the form's submit listener that may be suspended at once
MaxSubmits == 2
\* inbound requests the relay handler may have open at once
MaxRequests == 2

Subs == 1..MaxSubmits
Reqs == 1..MaxRequests

\* ------------------------------------------------------ JSON values, strings
NL == "\n"
SP == " "

Undef == [t |-> "undefined", v |-> <<>>]
Str(s) == [t |-> "string", v |-> s]
Arr(a) == [t |-> "array", v |-> a]

\* JavaScript truthiness of a body field: `!x` is true for undefined and for "".
\* Arrays (even empty ones) are truthy.
Truthy(j) ==
  CASE j.t = "undefined" -> FALSE
    [] j.t = "string" -> Len(j.v) > 0
    [] OTHER -> TRUE

\* `!services?.length`: the length is undefined for undefined, and 0 is falsy.
NoLength(j) ==
  \/ j.t = "undefined"
  \/ Len(j.v) = 0

\* ------------------------------------------------------- relay: the literals
GREETING == <<"[envelope] Novaya zayavka s sayta!">>
NAME_PREFIX == <<"[person] Imya: ">>
CONTACT_PREFIX == <<"[phone] Kontakt: ">>
SERVICES_HEADER == <<"[wrench] Uslugi:">>
BULLET == <<"  * ">>
CHAT_ID == "CHAT_ID"
MSG_FILL_ALL == "Zapolni vse polya i vyberi khotya by odnu uslugu"
MSG_SEND_FAILED == "Ne udalos otpravit soobshchenie"
MSG_TELEGRAM_ERROR == "Telegram API error"

\* --------------------------------------------------- relay: the message text
RECURSIVE Join(_)
\* Array.prototype.join('\n')
Join(parts) ==
  IF Len(parts) = 0 THEN <<>>
  ELSE IF Len(parts) = 1 THEN parts[1]
  ELSE parts[1] \o <<NL>> \o Join(Tail(parts))

\* services.map(s => `  * ${s}`)
BulletLinesReversed(services) ==
  [k \in 1..Len(services) |-> BULLET \o services[Len(services) + 1 - k]]
BulletLines(services) == [k \in 1..Len(services) |-> BULLET \o services[k]]

\* the array literal of the handler before .join
TextParts(name, contact, services) ==
  << GREETING,
     <<>>,
     NAME_PREFIX \o name,
     CONTACT_PREFIX \o contact,
     <<>>,
     SERVICES_HEADER >> \o BulletLines(services)

BuildText(name, contact, services) == Join(TextParts(name, contact, services))

\* --------------------------------------------------- relay: HTTP responses
NoError == [present |-> FALSE, v |-> ""]
ErrorField(m) == [present |-> TRUE, v |-> m]
JsonBody(success, error) == [kind |-> "object", success |-> success, error |-> error]
HtmlBody == [kind |-> "invalid", success |-> FALSE, error |-> NoError]
NullBody == [kind |-> "null", success |-> FALSE, error |-> NoError]

NoResponse == [status |-> 0, body |-> HtmlBody]
Response(status, body) == [status |-> status, body |-> body]

\* res.status(400).json({ error: '...' })
ValidationResponse == Response(400, JsonBody(FALSE, ErrorField(MSG_FILL_ALL)))
\* res.json({ success: true })
SuccessResponse == Response(200, JsonBody(TRUE, NoError))
\* res.status(500).json({ error: '...' }); the caught error is not used
FailureResponseLeaky(err) == Response(500, JsonBody(FALSE, ErrorField(err)))
FailureResponse(err) == Response(500, JsonBody(FALSE, ErrorField(MSG_SEND_FAILED)))
\* what the framework's default error handler sends when it is handed an error
FrameworkErrorResponse == Response(500, HtmlBody)

\* Response.ok of fetch: the status is in 200..299
Ok(status) == status >= 200 /\ status <= 299

\* ------------------------------------------------ relay: the request bodies
\* `if (!name || !contact || !services?.length)`
RejectsNoServicesCheck(body) == ~Truthy(body.name) \/ ~Truthy(body.contact)
RejectsAnyLength(body) ==
  ~Truthy(body.name) \/ ~Truthy(body.contact) \/ ~NoLength(body.services)
Rejects(body) ==
  \/ ~Truthy(body.name)
  \/ ~Truthy(body.contact)
  \/ NoLength(body.services)

\* ---------------------------------------------------------- the messaging API
\* How one outbound call settles: a response with a status and a body text of the
\* provider, or a rejection of fetch (network failure) with the error's message.
UpstreamOutcomes ==
  { [kind |-> "response", status |-> 200, detail |-> "ok"],
    [kind |-> "response", status |-> 403, detail |-> "Forbidden: bot was blocked by the user"],
    [kind |-> "response", status |-> 500, detail |-> "Internal Server Error"],
    [kind |-> "reject", status |-> 0, detail |-> "fetch failed"] }
NoOutcome == [kind |-> "none", status |-> 0, detail |-> ""]

UpstreamFailed(o) == o.kind = "reject" \/ (o.kind = "response" /\ ~Ok(o.status))

VARIABLES
  nameField,      \* value of #name
  contactField,   \* value of #contact
  checked,        \* checked[i]: the i-th checkbox of the menu, in document order
  menuOpen,       \* dropdownMenu has class 'open'
  btnDisabled,    \* .submit-btn disabled
  btnLabel,       \* .submit-btn textContent
  statusText,     \* #status textContent
  statusClass,    \* #status className
  subs,           \* invocations of the submit listener, by slot
  reqs            \* invocations of the /api/send handler, by slot

formVars == <<nameField, contactField, checked, menuOpen, btnDisabled, btnLabel,
              statusText, statusClass, subs>>
vars == <<nameField, contactField, checked, menuOpen, btnDisabled, btnLabel,
          statusText, statusClass, subs, reqs>>

\* ----------------------------------------------------- relay: handler state
FreeReq ==
  [pc |-> "free", from |-> 0, body |-> [name |-> Undef, contact |-> Undef, services |-> Undef],
   outbound |-> <<>>, upstream |-> NoOutcome, resp |-> NoResponse, log |-> <<>>]

\* JSON.stringify({ chat_id: CHAT_ID, text, parse_mode: 'HTML' })
OutboundCall(text) == [chat_id |-> CHAT_ID, text |-> text, parse_mode |-> "HTML"]

\* The handler from its entry to its first suspension: the validation, the text and
\* the start of the one fetch. `services.map` throws for a value that has a length
\* and is no array; the async handler's promise then rejects outside the try block,
\* and what the caller gets depends on the framework version (`crash`): nothing at
\* all, or the default error handler's response.
HandleEntry(body, from, crash) ==
  IF Rejects(body)
    THEN [FreeReq EXCEPT !.pc = "done", !.from = from, !.body = body,
                         !.resp = ValidationResponse]
  ELSE IF body.services.t # "array"
    THEN [FreeReq EXCEPT !.pc = crash.pc, !.from = from, !.body = body,
                         !.resp = crash.resp]
  ELSE [FreeReq EXCEPT !.pc = "awaiting", !.from = from, !.body = body,
          !.outbound = << OutboundCall(BuildText(body.name.v, body.contact.v, body.services.v)) >>]

CrashOutcomes ==
  { [pc |-> "crashed", resp |-> NoResponse],
    [pc |-> "done", resp |-> FrameworkErrorResponse] }

\* The handler after the await: `if (!response.ok) throw`, res.json on success,
\* console.error and res.status(500) in the catch block.
ThrownMessage(o) == IF o.kind = "reject" THEN o.detail ELSE MSG_TELEGRAM_ERROR

HandleSettledNegated(req, o) ==
  IF ~UpstreamFailed(o)
    THEN [req EXCEPT !.pc = "done", !.upstream = o,
                     !.log = Append(@, ThrownMessage(o)),
                     !.resp = FailureResponse(ThrownMessage(o))]
    ELSE [req EXCEPT !.pc = "done", !.upstream = o, !.resp = SuccessResponse]
HandleSettledRetry(req, o) ==
  IF UpstreamFailed(o)
    THEN [req EXCEPT !.upstream = o, !.outbound = @ \o @,
                     !.log = Append(@, ThrownMessage(o)),
                     !.pc = "done", !.resp = FailureResponse(ThrownMessage(o))]
    ELSE [req EXCEPT !.pc = "done", !.upstream = o, !.resp = SuccessResponse]
HandleSettled(req, o) ==
  IF UpstreamFailed(o)
    THEN [req EXCEPT !.pc = "done", !.upstream = o,
                     !.log = Append(@, ThrownMessage(o)),
                     !.resp = FailureResponse(ThrownMessage(o))]
    ELSE [req EXCEPT !.pc = "done", !.upstream = o, !.resp = SuccessResponse]

\* ------------------------------------------------------- form: field values
\* what the visitor may have typed into #name and #contact
FieldValues == { <<>>, <<SP>>, <<SP, "a">> }
\* the value attributes of the menu's checkboxes, in document order
Options == << <<"x">>, <<"y">> >>
Checkable == [1..Len(Options) -> BOOLEAN]

IsSpace(c) == c = SP \/ c = NL

RECURSIVE TrimStart(_)
TrimStart(s) ==
  IF Len(s) > 0 /\ IsSpace(s[1]) THEN TrimStart(Tail(s)) ELSE s

RECURSIVE TrimEnd(_)
TrimEnd(s) ==
  IF Len(s) > 0 /\ IsSpace(s[Len(s)]) THEN TrimEnd(SubSeq(s, 1, Len(s) - 1)) ELSE s

\* String.prototype.trim
Trim(s) == TrimEnd(TrimStart(s))

RECURSIVE CheckedFrom(_, _)
CheckedFrom(chk, i) ==
  IF i > Len(Options) THEN <<>>
  ELSE (IF chk[i] THEN <<Options[i]>> ELSE <<>>) \o CheckedFrom(chk, i + 1)

RECURSIVE CheckedDownFrom(_, _)
CheckedDownFrom(chk, i) ==
  IF i < 1 THEN <<>>
  ELSE (IF chk[i] THEN <<Options[i]>> ELSE <<>>) \o CheckedDownFrom(chk, i - 1)

\* querySelectorAll('input[type="checkbox"]:checked') mapped to the values
GetSelectedServicesReversed(chk) == CheckedDownFrom(chk, Len(Options))
GetSelectedServices(chk) == CheckedFrom(chk, 1)

\* JSON.stringify({ name, contact, services }) as express.json() reads it back
FormRequest(name, contact, services) ==
  [name |-> Str(name), contact |-> Str(contact), services |-> Arr(services)]

\* the requests the form can post: it posts only with a service checked
FormBodies ==
  { FormRequest(Trim(n), Trim(c), GetSelectedServices(chk)) :
      n \in FieldValues, c \in FieldValues,
      chk \in { k \in Checkable : Len(GetSelectedServices(k)) > 0 } }

\* ------------------------------------------------- relay: inbound requests
\* Bodies a caller other than the form may post (the form's checks bypassed).
DirectNames == { Undef, Str(<<>>), Str(<<"a", NL, "c">>) }
DirectContacts == { Undef, Str(<<"b">>) }
DirectServices == { Undef, Arr(<<>>), Arr(<< <<"y">>, <<"x">> >>), Str(<<"x">>) }
DirectBodies == [name : DirectNames, contact : DirectContacts, services : DirectServices]
PostedBodies == DirectBodies \cup FormBodies

\* an inbound POST /api/send with a JSON body, whoever sends it
PostSend(r, body, crash) ==
  /\ reqs[r].pc = "free"
  /\ reqs' = [reqs EXCEPT ![r] = HandleEntry(body, 0, crash)]
  /\ UNCHANGED formVars

\* the outbound call of request r settles and the handler runs to its end
OutboundSettlesShared(r, o) ==
  /\ reqs[r].pc = "awaiting"
  /\ reqs' = [q \in Reqs |->
                IF reqs[q].pc = "awaiting" THEN HandleSettled(reqs[q], o) ELSE reqs[q]]
  /\ UNCHANGED formVars
OutboundSettles(r, o) ==
  /\ reqs[r].pc = "awaiting"
  /\ reqs' = [reqs EXCEPT ![r] = HandleSettled(reqs[r], o)]
  /\ UNCHANGED formVars

\* the caller of a request posted directly has read the response, or has given up on
\* a connection the handler left without one; nothing of the request remains
CloseRequest(r) ==
  /\ reqs[r].pc \in {"done", "crashed"}
  /\ reqs[r].from = 0
  /\ reqs' = [reqs EXCEPT ![r] = FreeReq]
  /\ UNCHANGED formVars

\* ------------------------------------------------------------ form: literals
MSG_SELECT_SERVICE == "Vyberite khotya by odnu uslugu"
MSG_SENT == "Zayavka otpravlena! Ya svyazhus s vami."
MSG_FALLBACK == "Oshibka"
LABEL_SENDING == "Otpravka..."
LABEL_SUBMIT == "Otpravit zayavku"
\* messages of errors the runtime throws: fetch rejecting, res.json() on a body that
\* is no JSON, and reading `.error` of a JSON null
MSG_NETWORK == "Failed to fetch"
MSG_SYNTAX == "Unexpected token < in JSON at position 0"
MSG_NULL == "Cannot read properties of null (reading 'error')"

\* ------------------------------------------------- form: the submit listener
IdleSub ==
  [pc |-> "idle", payload |-> FormRequest(<<>>, <<>>, <<>>), sent |-> FALSE,
   res |-> NoResponse]

LeastIdle(n) == subs[n].pc = "idle" /\ \A m \in 1..(n - 1) : subs[m].pc # "idle"
LeastFree(r) == reqs[r].pc = "free" /\ \A q \in 1..(r - 1) : reqs[q].pc # "free"

\* The listener from its entry to `await fetch`: preventDefault, the trimmed
\* fields, getSelectedServices, the `!services.length` return, the button and the
\* status, and the start of the fetch.
OnSubmitDisablesFirst(n) ==
  LET services == GetSelectedServices(checked) IN
  /\ btnDisabled' = TRUE
  /\ btnLabel' = LABEL_SENDING
  /\ IF Len(services) = 0
       THEN /\ statusText' = MSG_SELECT_SERVICE
            /\ statusClass' = "status error"
            /\ UNCHANGED subs
       ELSE /\ statusText' = ""
            /\ statusClass' = "status"
            /\ subs' = [subs EXCEPT ![n] =
                 [IdleSub EXCEPT !.pc = "fetch",
                    !.payload = FormRequest(Trim(nameField), Trim(contactField), services)]]
  /\ UNCHANGED <<nameField, contactField, checked, menuOpen, reqs>>
OnSubmitNoDisable(n) ==
  LET services == GetSelectedServices(checked) IN
  /\ IF Len(services) = 0
       THEN /\ statusText' = MSG_SELECT_SERVICE
            /\ statusClass' = "status error"
            /\ UNCHANGED <<btnDisabled, btnLabel, subs>>
       ELSE /\ UNCHANGED btnDisabled
            /\ btnLabel' = LABEL_SENDING
            /\ statusText' = ""
            /\ statusClass' = "status"
            /\ subs' = [subs EXCEPT ![n] =
                 [IdleSub EXCEPT !.pc = "fetch",
                    !.payload = FormRequest(Trim(nameField), Trim(contactField), services)]]
  /\ UNCHANGED <<nameField, contactField, checked, menuOpen, reqs>>
OnSubmitKeepsStatus(n) ==
  LET services == GetSelectedServices(checked) IN
  /\ IF Len(services) = 0
       THEN /\ statusText' = MSG_SELECT_SERVICE
            /\ statusClass' = "status error"
            /\ UNCHANGED <<btnDisabled, btnLabel, subs>>
       ELSE /\ btnDisabled' = TRUE
            /\ btnLabel' = LABEL_SENDING
            /\ UNCHANGED <<statusText, statusClass>>
            /\ subs' = [subs EXCEPT ![n] =
                 [IdleSub EXCEPT !.pc = "fetch",
                    !.payload = FormRequest(Trim(nameField), Trim(contactField), services)]]
  /\ UNCHANGED <<nameField, contactField, checked, menuOpen, reqs>>
OnSubmit(n) ==
  LET services == GetSelectedServices(checked) IN
  /\ IF Len(services) = 0
       THEN /\ statusText' = MSG_SELECT_SERVICE
            /\ statusClass' = "status error"
            /\ UNCHANGED <<btnDisabled, btnLabel, subs>>
       ELSE /\ btnDisabled' = TRUE
            /\ btnLabel' = LABEL_SENDING
            /\ statusText' = ""
            /\ statusClass' = "status"
            /\ subs' = [subs EXCEPT ![n] =
                 [IdleSub EXCEPT !.pc = "fetch",
                    !.payload = FormRequest(Trim(nameField), Trim(contactField), services)]]
  /\ UNCHANGED <<nameField, contactField, checked, menuOpen, reqs>>

\* a submit event the browser fires for the visitor: the submit control is enabled
Submit(n) ==
  /\ LeastIdle(n)
  /\ ~btnDisabled
  /\ OnSubmit(n)

\* a submit event dispatched by a script while the control is disabled: the
\* listener does not look at the control
DispatchSubmit(n) ==
  /\ LeastIdle(n)
  /\ btnDisabled
  /\ OnSubmit(n)

\* the POST of invocation n reaches the relay handler, which runs to its await
Deliver(n, r, crash) ==
  /\ subs[n].pc = "fetch"
  /\ ~subs[n].sent
  /\ LeastFree(r)
  /\ reqs' = [reqs EXCEPT ![r] = HandleEntry(subs[n].payload, n, crash)]
  /\ subs' = [subs EXCEPT ![n].sent = TRUE]
  /\ UNCHANGED <<nameField, contactField, checked, menuOpen, btnDisabled, btnLabel,
                 statusText, statusClass>>

\* The page learns of a lost connection or gets an intermediary's answer either
\* before the request has reached the relay handler or after the handler is through
\* with it (a failure noticed while the handler is still at work is the same to the
\* page as one noticed later, and the handler's remaining steps touch nothing of the
\* page). The request is then over for the handler too.
Interruptible(n) ==
  \/ ~subs[n].sent
  \/ \E r \in Reqs : reqs[r].from = n /\ reqs[r].pc \in {"done", "crashed"}
Dropped(n) == [r \in Reqs |-> IF reqs[r].from = n THEN FreeReq ELSE reqs[r]]

\* `await fetch` resolves with the relay handler's response
FetchResolves(n, r) ==
  /\ subs[n].pc = "fetch"
  /\ reqs[r].from = n
  /\ reqs[r].pc = "done"
  /\ subs' = [subs EXCEPT ![n].pc = "json", ![n].res = reqs[r].resp]
  /\ reqs' = [reqs EXCEPT ![r] = FreeReq]
  /\ UNCHANGED <<nameField, contactField, checked, menuOpen, btnDisabled, btnLabel,
                 statusText, statusClass>>

\* Responses to POST /api/send that the relay handler did not write: an error page
\* of the reverse proxy in front of it, a page served with status 200, a JSON
\* error object of a gateway without or with an empty `error`, a JSON null.
ForeignResponses ==
  { Response(502, HtmlBody),
    Response(200, HtmlBody),
    Response(404, JsonBody(FALSE, NoError)),
    Response(422, JsonBody(FALSE, ErrorField(""))),
    Response(500, NullBody) }

\* `await fetch` resolves with such a response
FetchResolvesForeign(n, res) ==
  /\ subs[n].pc = "fetch"
  /\ Interruptible(n)
  /\ subs' = [subs EXCEPT ![n].pc = "json", ![n].res = res]
  /\ reqs' = Dropped(n)
  /\ UNCHANGED <<nameField, contactField, checked, menuOpen, btnDisabled, btnLabel,
                 statusText, statusClass>>

\* What the try block of the listener comes to once the response is there:
\* res.json(), `if (res.ok)`, `throw new Error(data.error || 'Oshibka')`.
ErrorMessageFallbackOnly(body) == MSG_FALLBACK
ErrorMessage(body) ==
  IF body.error.present /\ body.error.v # "" THEN body.error.v ELSE MSG_FALLBACK

TryOutcome(res) ==
  IF res.body.kind = "invalid" THEN [success |-> FALSE, message |-> MSG_SYNTAX]
  ELSE IF Ok(res.status) THEN [success |-> TRUE, message |-> MSG_SENT]
  ELSE IF res.body.kind = "null" THEN [success |-> FALSE, message |-> MSG_NULL]
  ELSE [success |-> FALSE, message |-> ErrorMessage(res.body)]

\* the finally block: btn.disabled = false, whatever the try block came to
DisabledAfterOnlyOnSuccess(out) == ~out.success
DisabledAfter(out) == FALSE

\* form.reset() and the unchecking of every checkbox; the fields' default values
\* are taken to be empty and unchecked
ResetKeepsChecks(chk) == chk
Reset(chk) == [i \in DOMAIN chk |-> FALSE]

\* the rest of the listener: success branch or catch block, then finally
FinishClearsAlways(n, out) ==
  /\ statusText' = out.message
  /\ statusClass' = (IF out.success THEN "status success" ELSE "status error")
  /\ nameField' = <<>>
  /\ contactField' = <<>>
  /\ checked' = Reset(checked)
  /\ btnDisabled' = DisabledAfter(out)
  /\ btnLabel' = IF DisabledAfter(out) THEN btnLabel ELSE LABEL_SUBMIT
  /\ subs' = [subs EXCEPT ![n] = IdleSub]
  /\ UNCHANGED menuOpen
FinishFirstWins(n, out) ==
  /\ statusText' = (IF statusText = "" THEN out.message ELSE statusText)
  /\ statusClass' =
       (IF statusText # "" THEN statusClass
        ELSE IF out.success THEN "status success" ELSE "status error")
  /\ IF out.success
       THEN /\ nameField' = <<>>
            /\ contactField' = <<>>
            /\ checked' = Reset(checked)
       ELSE UNCHANGED <<nameField, contactField, checked>>
  /\ btnDisabled' = DisabledAfter(out)
  /\ btnLabel' = IF DisabledAfter(out) THEN btnLabel ELSE LABEL_SUBMIT
  /\ subs' = [subs EXCEPT ![n] = IdleSub]
  /\ UNCHANGED menuOpen
Finish(n, out) ==
  /\ statusText' = out.message
  /\ statusClass' = (IF out.success THEN "status success" ELSE "status error")
  /\ IF out.success
       THEN /\ nameField' = <<>>
            /\ contactField' = <<>>
            /\ checked' = Reset(checked)
       ELSE UNCHANGED <<nameField, contactField, checked>>
  /\ btnDisabled' = DisabledAfter(out)
  /\ btnLabel' = IF DisabledAfter(out) THEN btnLabel ELSE LABEL_SUBMIT
  /\ subs' = [subs EXCEPT ![n] = IdleSub]
  /\ UNCHANGED menuOpen

\* `await res.json()` settles and the listener runs to its end
JsonSettles(n) ==
  /\ subs[n].pc = "json"
  /\ Finish(n, TryOutcome(subs[n].res))
  /\ UNCHANGED reqs

\* `await fetch` rejects (no response received): catch block, then finally
FetchRejects(n) ==
  /\ subs[n].pc = "fetch"
  /\ Interruptible(n)
  /\ Finish(n, [success |-> FALSE, message |-> MSG_NETWORK])
  /\ reqs' = Dropped(n)

\* ------------------------------------------------------- form: the visitor
TypeName(v) ==
  /\ v # nameField
  /\ nameField' = v
  /\ UNCHANGED <<contactField, checked, menuOpen, btnDisabled, btnLabel, statusText,
                 statusClass, subs, reqs>>

TypeContact(v) ==
  /\ v # contactField
  /\ contactField' = v
  /\ UNCHANGED <<nameField, checked, menuOpen, btnDisabled, btnLabel, statusText,
                 statusClass, subs, reqs>>

\* what a click can land on: the toggle button, a checkbox of the menu, another
\* part of the menu, or anything else of the page
Targets == {"dropdownBtn", "checkbox", "menu", "page"}

\* e.target.closest('.dropdown'): the button and the menu are children of the
\* container with class dropdown
InsideDropdown(target) == target \in {"dropdownBtn", "checkbox", "menu"}

\* the listener of dropdownBtn: classList.toggle('open')
ToggleMenuOpensOnly(open) == TRUE
ToggleMenu(open) == ~open

\* the listener of document: classList.remove('open') unless the target is inside
OnDocumentClickAlwaysCloses(target, open) == FALSE
OnDocumentClick(target, open) == IF ~InsideDropdown(target) THEN FALSE ELSE open

\* one click, as it bubbles: the button's listener if the target is the button,
\* then the listener of document
ClickEffect(target, open) ==
  OnDocumentClick(target, IF target = "dropdownBtn" THEN ToggleMenu(open) ELSE open)

\* a click on a checkbox of the open menu; it is inside .dropdown
ClickCheckbox(i) ==
  /\ menuOpen
  /\ checked' = [checked EXCEPT ![i] = ~@]
  /\ menuOpen' = ClickEffect("checkbox", menuOpen)
  /\ UNCHANGED <<nameField, contactField, btnDisabled, btnLabel, statusText,
                 statusClass, subs, reqs>>

\* a click on dropdownBtn: classList.toggle('open'); the document listener finds
\* the button inside .dropdown and leaves the menu alone
ClickDropdownBtn ==
  /\ menuOpen' = ClickEffect("dropdownBtn", menuOpen)
  /\ UNCHANGED <<nameField, contactField, checked, btnDisabled, btnLabel, statusText,
                 statusClass, subs, reqs>>

\* a click whose target has no .dropdown ancestor: classList.remove('open')
ClickOutside ==
  /\ menuOpen' = ClickEffect("page", menuOpen)
  /\ UNCHANGED <<nameField, contactField, checked, btnDisabled, btnLabel, statusText,
                 statusClass, subs, reqs>>

Init ==
  /\ nameField = <<>>
  /\ contactField = <<>>
  /\ checked = [i \in 1..Len(Options) |-> FALSE]
  /\ menuOpen = FALSE
  /\ btnDisabled = FALSE
  /\ btnLabel = LABEL_SUBMIT
  /\ statusText = ""
  /\ statusClass = ""
  /\ subs = [n \in Subs |-> IdleSub]
  /\ reqs = [r \in Reqs |-> FreeReq]

\* the relay handler alone, posted to by any caller
NextRelay ==
  \/ \E r \in Reqs, body \in PostedBodies, crash \in CrashOutcomes : PostSend(r, body, crash)
  \/ \E r \in Reqs, o \in UpstreamOutcomes : OutboundSettles(r, o)
  \/ \E r \in Reqs : CloseRequest(r)

SpecRelay == Init /\ [][NextRelay]_vars

\* the relay handler with a messaging API that settles every call made to it: the
\* awaited fetch of each open request eventually resolves or rejects
SpecRelayFair ==
  SpecRelay /\ \A r \in Reqs : WF_vars(\E o \in UpstreamOutcomes : OutboundSettles(r, o))

\* what the visitor does to the page
Visitor ==
  \/ \E v \in FieldValues : TypeName(v)
  \/ \E v \in FieldValues : TypeContact(v)
  \/ \E i \in 1..Len(Options) : ClickCheckbox(i)
  \/ ClickDropdownBtn
  \/ ClickOutside

\* the network between page and relay handler, the relay handler, the messaging API
Network ==
  \/ \E n \in Subs, r \in Reqs, crash \in CrashOutcomes : Deliver(n, r, crash)
  \/ \E r \in Reqs, o \in UpstreamOutcomes : OutboundSettles(r, o)
  \/ \E n \in Subs, r \in Reqs : FetchResolves(n, r)
  \/ \E n \in Subs, res \in ForeignResponses : FetchResolvesForeign(n, res)
  \/ \E n \in Subs : JsonSettles(n)
  \/ \E n \in Subs : FetchRejects(n)

\* the page used through its controls, the relay handler behind it, the messaging API
Next ==
  \/ Visitor
  \/ \E n \in Subs : Submit(n)
  \/ Network

Spec == Init /\ [][Next]_vars

\* the page after the visitor has filled in the form in some way; from then on submit
\* events come from the control and from scripts that dispatch them while the
\* control is disabled
InitRace ==
  /\ nameField \in FieldValues
  /\ contactField \in FieldValues
  /\ checked \in Checkable
  /\ menuOpen = FALSE
  /\ btnDisabled = FALSE
  /\ btnLabel = LABEL_SUBMIT
  /\ statusText = ""
  /\ statusClass = ""
  /\ subs = [n \in Subs |-> IdleSub]
  /\ reqs = [r \in Reqs |-> FreeReq]

NextRace ==
  \/ \E n \in Subs : Submit(n)
  \/ \E n \in Subs : DispatchSubmit(n)
  \/ Network

SpecRace == InitRace /\ [][NextRace]_vars

\* ======================================================== the relay handler
\* vocabulary of the statements below, in the words of the interface
OpenReqs == { r \in Reqs : reqs[r].pc # "free" }
Answered(r) == reqs[r].pc = "done"
Calls(r) == Len(reqs[r].outbound)

AbsentOrEmpty(j) == j.t = "undefined" \/ (j.t = "string" /\ j.v = <<>>)
NonEmptyString(j) == j.t = "string" /\ j.v # <<>>
NonEmptyList(j) == j.t = "array" /\ j.v # <<>>
FailsRequiredFields(body) ==
  AbsentOrEmpty(body.name) \/ AbsentOrEmpty(body.contact)
    \/ body.services.t = "undefined" \/ (body.services.t = "array" /\ body.services.v = <<>>)
ValidRequest(body) ==
  NonEmptyString(body.name) /\ NonEmptyString(body.contact) /\ NonEmptyList(body.services)

HasErrorText(resp) ==
  resp.body.kind = "object" /\ resp.body.error.present /\ resp.body.error.v # ""
IsSuccessBody(resp) ==
  resp.body.kind = "object" /\ resp.body.success /\ ~resp.body.error.present

\* C1: a request whose name or contact is absent or empty, or whose services are
\* absent or empty, is answered 400 with a non-empty error field, and no outbound
\* call is made for it.
C1_InvalidRejected ==
  \A r \in OpenReqs :
    FailsRequiredFields(reqs[r].body) =>
      /\ Answered(r)
      /\ reqs[r].resp.status = 400
      /\ HasErrorText(reqs[r].resp)
      /\ Calls(r) = 0

C1_Witness ==
  \E r \in OpenReqs :
    /\ NonEmptyString(reqs[r].body.name) /\ NonEmptyString(reqs[r].body.contact)
    /\ reqs[r].body.services = Arr(<<>>)
    /\ reqs[r].resp.status = 400

\* C2: a valid request whose outbound call returned a success status is answered
\* 200 {success: true}, and exactly one outbound call was made for it.
C2_SuccessPath ==
  \A r \in OpenReqs :
    ( /\ ValidRequest(reqs[r].body)
      /\ reqs[r].upstream.kind = "response"
      /\ reqs[r].upstream.status \in 200..299 ) =>
      /\ Answered(r)
      /\ reqs[r].resp.status = 200
      /\ IsSuccessBody(reqs[r].resp)
      /\ Calls(r) = 1

C2_Witness ==
  \E r \in OpenReqs :
    /\ ValidRequest(reqs[r].body)
    /\ reqs[r].upstream.kind = "response" /\ reqs[r].upstream.status = 200
    /\ reqs[r].resp.status = 200

\* C3: whenever the outbound call fails (non-success status, or a rejection) the
\* answer is 500 with the one fixed error text, which is no text of the upstream
\* failure; two requests with the same body whose upstream failures differ get the
\* same answer; the thrown error's message goes to the log.
UpstreamHasFailed(r) ==
  \/ reqs[r].upstream.kind = "reject"
  \/ reqs[r].upstream.kind = "response" /\ reqs[r].upstream.status \notin 200..299

C4_NoRetries ==
  \A r \in OpenReqs :
    Calls(r) = (IF ValidRequest(reqs[r].body) THEN 1 ELSE 0)

C4_Witness ==
  \E r \in OpenReqs :
    /\ UpstreamHasFailed(r) /\ reqs[r].resp.status = 500 /\ Calls(r) = 1

\* C5: a request with non-empty name, contact and services (in particular one the
\* form builds from the checked options) is not answered 400 and gets its outbound
\* call; a 400 is sent only to a request that fails the required-field check.
C5_ValidAccepted ==
  \A r \in OpenReqs :
    /\ ValidRequest(reqs[r].body) => (reqs[r].resp.status # 400 /\ Calls(r) = 1)
    /\ reqs[r].resp.status = 400 => FailsRequiredFields(reqs[r].body)

C5_Witness ==
  \E r \in OpenReqs :
    /\ reqs[r].body \in FormBodies
    /\ reqs[r].body.services.v = << <<"x">>, <<"y">> >>
    /\ NonEmptyString(reqs[r].body.name) /\ NonEmptyString(reqs[r].body.contact)
    /\ reqs[r].pc = "awaiting"
    /\ Calls(r) = 1

\* ---- the text of the message, read back as lines
RECURSIVE SplitLines(_)
SplitLines(text) ==
  IF \A i \in 1..Len(text) : text[i] # NL THEN <<text>>
  ELSE LET i == CHOOSE k \in 1..Len(text) :
                  text[k] = NL /\ \A m \in 1..(k - 1) : text[m] # NL
       IN <<SubSeq(text, 1, i - 1)>> \o SplitLines(SubSeq(text, i + 1, Len(text)))

Breaks(s) == Cardinality({ i \in 1..Len(s) : s[i] = NL })
RECURSIVE BreaksIn(_)
BreaksIn(list) == IF list = <<>> THEN 0 ELSE Breaks(Head(list)) + BreaksIn(Tail(list))
FieldBreaks(body) ==
  Breaks(body.name.v) + Breaks(body.contact.v) + BreaksIn(body.services.v)

FixedLineOrder(lines, body) ==
  /\ Len(lines) = 6 + Len(body.services.v)
  /\ lines[1] = <<"[envelope] Novaya zayavka s sayta!">>
  /\ lines[2] = <<>>
  /\ lines[3] = <<"[person] Imya: ">> \o body.name.v
  /\ lines[4] = <<"[phone] Kontakt: ">> \o body.contact.v
  /\ lines[5] = <<>>
  /\ lines[6] = <<"[wrench] Uslugi:">>
  /\ \A k \in 1..Len(body.services.v) : lines[6 + k] = <<"  * ">> \o body.services.v[k]

SameTextForSameRequest ==
  \A r1, r2 \in OpenReqs :
    (Calls(r1) > 0 /\ Calls(r2) > 0 /\ reqs[r1].body = reqs[r2].body) =>
      reqs[r1].outbound[1].text = reqs[r2].outbound[1].text

\* C6 as stated: the text of every message has 6 + |services| lines in the fixed
\* order, the k-th bullet line carrying the k-th service, and the same request
\* gives the same text.
C6_AsStated ==
  /\ \A r \in OpenReqs :
       Calls(r) > 0 => FixedLineOrder(SplitLines(reqs[r].outbound[1].text), reqs[r].body)
  /\ SameTextForSameRequest

\* C6, amended: the text has 6 + |services| lines plus one for every line break
\* inside name, contact or a service; for a request without line breaks in its
\* fields the lines are the fixed ones, the k-th bullet line carrying the k-th
\* service; and the same request gives the same text.
C6_FixedLinesWithoutBreaks ==
  /\ \A r \in OpenReqs :
       Calls(r) > 0 =>
         LET lines == SplitLines(reqs[r].outbound[1].text) IN
         /\ Len(lines) = 6 + Len(reqs[r].body.services.v) + FieldBreaks(reqs[r].body)
         /\ FieldBreaks(reqs[r].body) = 0 => FixedLineOrder(lines, reqs[r].body)
         /\ reqs[r].outbound[1].chat_id = CHAT_ID
         /\ reqs[r].outbound[1].parse_mode = "HTML"
  /\ SameTextForSameRequest

C6_Witness ==
  \E r1, r2 \in OpenReqs :
    /\ r1 # r2
    /\ Calls(r1) = 1 /\ Calls(r2) = 1
    /\ reqs[r1].body = reqs[r2].body
    /\ reqs[r1].body.services.v = << <<"x">>, <<"y">> >>
    /\ FieldBreaks(reqs[r1].body) = 0
    /\ Len(SplitLines(reqs[r1].outbound[1].text)) = 8

\* ======================================================== the form controller
NothingChecked == \A i \in 1..Len(Options) : ~checked[i]
InFlight == { n \in Subs : subs[n].pc # "idle" }
\* invocation n of the listener runs to its end in this step
Settles(n) == subs[n].pc # "idle" /\ subs'[n].pc = "idle"
\* invocation n gets its response read and runs to its end in this step
SettlesWith(n, statuses) ==
  subs[n].pc = "json" /\ subs[n].res.status \in statuses /\ subs'[n].pc = "idle"
SuccessRange == 200..299
ErrorRange == (100..199) \cup (300..599)

\* C7: when submit fires with no option checked, the status becomes the
\* "select at least one service" error, no request is issued to the network, and the
\* submit control's disabled flag and label stay as they were.
C7_ValidationBranch ==
  [][ \A n \in Subs :
        (Submit(n) /\ NothingChecked) =>
          /\ statusText' = MSG_SELECT_SERVICE
          /\ statusClass' = "status error"
          /\ UNCHANGED <<btnDisabled, btnLabel>>
          /\ UNCHANGED <<subs, reqs>>
          /\ InFlight' = {} ]_vars

C7_Witness ==
  /\ statusText = MSG_SELECT_SERVICE
  /\ statusClass = "status error"
  /\ NothingChecked
  /\ ~btnDisabled /\ btnLabel = LABEL_SUBMIT
  /\ InFlight = {}
  /\ \A r \in Reqs : reqs[r].pc = "free"

\* C8: every submission that entered Submitting leaves the submit control enabled
\* with its label restored when it settles, however it settles (2xx, non-2xx, a body
\* that is no JSON, a network failure); with no submission in flight the control is
\* never disabled.
C8_ControlReleased ==
  /\ [](InFlight = {} => (~btnDisabled /\ btnLabel = LABEL_SUBMIT))
  /\ [][ \A n \in Subs : Settles(n) => (~btnDisabled' /\ btnLabel' = LABEL_SUBMIT) ]_vars

C8_Witness ==
  /\ statusText = MSG_SYNTAX
  /\ InFlight = {}
  /\ ~btnDisabled /\ btnLabel = LABEL_SUBMIT

SuccessShown ==
  /\ statusText' = MSG_SENT
  /\ statusClass' = "status success"
  /\ nameField' = <<>>
  /\ contactField' = <<>>
  /\ \A i \in 1..Len(Options) : ~checked'[i]

\* C9: every response with a status in 200..299 ends in Success (success text and
\* style), and afterwards all fields are cleared and no checkbox is checked.
C9_AsStated ==
  [][ \A n \in Subs : SettlesWith(n, SuccessRange) => SuccessShown ]_vars

\* What the listener does with a status in 200..299: Success with the fields cleared
\* when the body parses as JSON; when it does not, res.json() throws before `res.ok`
\* is looked at, the parse error's message is shown as an error and the fields stay.
SuccessOnlyOnParsedBody ==
  [][ \A n \in Subs :
        SettlesWith(n, SuccessRange) =>
          IF subs[n].res.body.kind # "invalid"
            THEN SuccessShown
            ELSE /\ statusText' = MSG_SYNTAX
                 /\ statusClass' = "status error"
                 /\ UNCHANGED <<nameField, contactField, checked>> ]_vars

SuccessReached ==
  /\ statusText = MSG_SENT
  /\ statusClass = "status success"
  /\ nameField = <<>> /\ contactField = <<>> /\ NothingChecked
  /\ InFlight = {}
  /\ ~btnDisabled

RelayFailureShown ==
  /\ \A n \in Subs, r \in Reqs :
       (FetchResolves(n, r) /\ UpstreamHasFailed(r)) =>
         subs'[n].res = [status |-> 500,
                         body |-> [kind |-> "object", success |-> FALSE,
                                   error |-> [present |-> TRUE, v |-> MSG_SEND_FAILED]]]
  /\ \A n \in Subs :
       ( /\ SettlesWith(n, {500})
         /\ subs[n].res.body.kind = "object"
         /\ subs[n].res.body.error = [present |-> TRUE, v |-> MSG_SEND_FAILED] ) =>
         /\ statusText' = MSG_SEND_FAILED
         /\ statusClass' = "status error"
         /\ ~btnDisabled' /\ btnLabel' = LABEL_SUBMIT

\* C10: a response with a status outside 200..299 ends in an error whose text is
\* the body's `error` field when present and the generic fallback otherwise; and the
\* relay handler's answer to an upstream failure is shown as its generic 500 text,
\* with the submit control enabled again.
C10_AsStated ==
  [][ /\ \A n \in Subs :
           SettlesWith(n, ErrorRange) =>
             /\ statusClass' = "status error"
             /\ statusText' = IF subs[n].res.body.kind = "object" /\ subs[n].res.body.error.present
                                THEN subs[n].res.body.error.v
                                ELSE MSG_FALLBACK
      /\ RelayFailureShown ]_vars

\* What the listener does with a status outside 200..299: an error; when the body
\* parses to a JSON object the text is its `error` field if that is present and not
\* empty and the fallback otherwise; when the body is no JSON or is null the text is
\* the message of the error thrown on reading it. The relay handler's answer to an
\* upstream failure is shown as its generic 500 text, the control enabled again.
ErrorTextByBody ==
  [][ /\ \A n \in Subs :
           SettlesWith(n, ErrorRange) =>
             /\ statusClass' = "status error"
             /\ statusText' =
                  CASE subs[n].res.body.kind = "invalid" -> MSG_SYNTAX
                    [] subs[n].res.body.kind = "null" -> MSG_NULL
                    [] OTHER -> IF subs[n].res.body.error.present /\ subs[n].res.body.error.v # ""
                                  THEN subs[n].res.body.error.v
                                  ELSE MSG_FALLBACK
             /\ UNCHANGED <<nameField, contactField, checked>>
      /\ RelayFailureShown ]_vars

RelayFailureReached ==
  /\ statusText = MSG_SEND_FAILED
  /\ statusClass = "status error"
  /\ InFlight = {}
  /\ ~btnDisabled /\ btnLabel = LABEL_SUBMIT

\* C11: whenever the listener issues the POST, the trimmed name, the trimmed contact
\* and the services list of the request are non-empty; a submission whose name or
\* contact is empty or only white space does not reach the network.
C11_AsStated ==
  /\ \A n \in Subs : subs[n].pc = "fetch" => ValidRequest(subs[n].payload)
  /\ \A r \in OpenReqs : reqs[r].from # 0 => ValidRequest(reqs[r].body)

\* What the listener does check before the POST: the services list alone.
PostedServicesNeverEmpty ==
  /\ \A n \in Subs : subs[n].pc = "fetch" => NonEmptyList(subs[n].payload.services)
  /\ \A r \in OpenReqs : reqs[r].from # 0 => NonEmptyList(reqs[r].body.services)

\* C12: a submission that ends in the validation error or in a transport error
\* (non-2xx response, or a network failure, whose own message is then shown) leaves
\* the name field, the contact field and the checked options as they were; only the
\* Success outcome clears them.
ListenerStep == \E n \in Subs : Submit(n) \/ JsonSettles(n) \/ FetchRejects(n)
FormKept == UNCHANGED <<nameField, contactField, checked>>

C12_FormKeptOnFailure ==
  [][ /\ (ListenerStep /\ statusClass' = "status error") => FormKept
      /\ (ListenerStep /\ ~FormKept) =>
           (statusText' = MSG_SENT /\ statusClass' = "status success")
      /\ \A n \in Subs :
           (subs[n].pc = "fetch" /\ Settles(n)) =>
             (statusText' = MSG_NETWORK /\ statusClass' = "status error" /\ FormKept)
      /\ \A n \in Subs :
           (SettlesWith(n, ErrorRange) \/ (Submit(n) /\ NothingChecked)) => FormKept ]_vars

C12_Witness ==
  /\ statusText = MSG_NETWORK
  /\ statusClass = "status error"
  /\ InFlight = {}
  /\ nameField = <<SP, "a">> /\ contactField = <<SP, "a">>
  /\ checked[1] /\ checked[2]
  /\ ~btnDisabled

\* C13: a click on the toggle button flips the visibility of the panel, so two
\* clicks on it in a row restore it; a click whose target is not inside the dropdown
\* container always leaves the panel closed; a click inside the container on
\* anything but the toggle button leaves the visibility as it was.
C13_MenuVisibility ==
  /\ [](/\ ClickEffect("dropdownBtn", menuOpen) = ~menuOpen
        /\ ClickEffect("dropdownBtn", ClickEffect("dropdownBtn", menuOpen)) = menuOpen
        /\ \A t \in Targets :
             /\ ~InsideDropdown(t) => ClickEffect(t, menuOpen) = FALSE
             /\ (InsideDropdown(t) /\ t # "dropdownBtn") => ClickEffect(t, menuOpen) = menuOpen)
  /\ [][ /\ ClickDropdownBtn => menuOpen' = ~menuOpen
         /\ ClickOutside => ~menuOpen'
         /\ (\E i \in 1..Len(Options) : ClickCheckbox(i)) => menuOpen' = menuOpen ]_vars

\* the panel is open and an option was checked in it without closing it
C13_Witness ==
  /\ menuOpen
  /\ checked[1] /\ ~checked[2]
  /\ InFlight = {}

\* C14: when submit events fire only while the control is enabled, at most one
\* request is in flight in every reachable state, and the control is disabled
\* exactly while that request is in flight (an enabled control means none is).
FormReqs == { r \in Reqs : reqs[r].from # 0 }

C14_SingleInFlight ==
  /\ Cardinality(InFlight) <= 1
  /\ Cardinality(FormReqs) <= 1
  /\ btnDisabled <=> InFlight # {}
  /\ btnDisabled <=> btnLabel = LABEL_SENDING
  /\ \A r \in FormReqs : reqs[r].from \in InFlight

\* the one request is at the relay handler, waiting for the messaging API
C14_Witness ==
  /\ Cardinality(InFlight) = 1
  /\ btnDisabled
  /\ \E r \in FormReqs : reqs[r].pc = "awaiting" /\ subs[reqs[r].from].sent

\* C19: entering Submitting clears the status text and style, so nothing of an
\* earlier submission is shown during a new one: in every state with the (single)
\* request in flight the status area is empty, and it becomes non-empty again only
\* when that request settles.
StatusEmpty == statusText = "" /\ statusClass = "status"

C19_NoStaleStatus ==
  /\ [](InFlight # {} => StatusEmpty)
  /\ [][ /\ (\E n \in Subs : Submit(n) /\ subs'[n].pc = "fetch") => StatusEmpty'
         /\ (InFlight # {} /\ ~StatusEmpty') => \E n \in InFlight : Settles(n) ]_vars

\* the response of the relay handler's failure has arrived and is not shown yet
C19_Witness ==
  /\ \E n \in InFlight :
       subs[n].pc = "json" /\ subs[n].res.status = 500 /\ HasErrorText(subs[n].res)
  /\ StatusEmpty
  /\ btnDisabled

\* C16: the response of each request is determined by its own payload and the
\* outcome of its own outbound call alone; a 400 or 500 for one request never changes
\* the response of another, and the handler keeps nothing between requests.
SameInputs(r, q) == reqs[r].body = reqs[q].body /\ reqs[r].upstream = reqs[q].upstream

DocumentedResponse(r) ==
  /\ reqs[r].resp.status \in {200, 400, 500}
  /\ reqs[r].resp.status = 200 =>
       (reqs[r].upstream.kind = "response" /\ Ok(reqs[r].upstream.status))
  /\ reqs[r].resp.status = 400 => FailsRequiredFields(reqs[r].body)
  /\ reqs[r].resp.status = 500 => UpstreamHasFailed(r)

C17_AsStated ==
  \A r \in OpenReqs :
    /\ reqs[r].pc \in {"awaiting", "done"}
    /\ Answered(r) => DocumentedResponse(r)

\* What holds: a request whose `services` is absent or an array is answered as
\* documented.
ListedOrAbsent(body) == body.services.t \in {"undefined", "array"}

DocumentedWhenListed ==
  \A r \in OpenReqs :
    ListedOrAbsent(reqs[r].body) =>
      /\ reqs[r].pc \in {"awaiting", "done"}
      /\ Answered(r) => DocumentedResponse(r)

\* C18: a valid request is answered if and only if its outbound call settles; when
\* every outbound call eventually returns or fails, every request eventually gets a
\* response; while an outbound call does not settle the handler stays open without
\* responding (no timeout, no cancellation).
OutboundSettled(r) == reqs[r].upstream # NoOutcome

C18_AsStated ==
  /\ [](\A r \in OpenReqs :
          ValidRequest(reqs[r].body) => (Answered(r) <=> OutboundSettled(r)))
  /\ \A r \in Reqs : (reqs[r].pc # "free") ~> Answered(r)

\* What holds: a request waiting for its outbound call is answered once the call
\* settles and not before, and a request that passed the handler's entry is waiting
\* or answered.
AnsweredIffSettled ==
  /\ [](\A r \in OpenReqs :
          /\ reqs[r].pc = "awaiting" => (~OutboundSettled(r) /\ reqs[r].resp = NoResponse)
          /\ ValidRequest(reqs[r].body) => (Answered(r) <=> OutboundSettled(r)))
  /\ [][ \A r \in Reqs :
           (reqs[r].pc = "awaiting" /\ reqs'[r].pc # "awaiting") =>
             (Answered(r)' /\ OutboundSettled(r)') ]_vars
  /\ \A r \in Reqs : (reqs[r].pc = "awaiting") ~> Answered(r)

\* C15: the listener does not look at the control's disabled flag, so a submit
\* event dispatched while a request is in flight starts a second, concurrent
\* request; whichever settles first re-enables the control while the other is still
\* in flight, and the status shown in the end is that of the request that settles
\* last.
SubmitEvent(n) == Submit(n) \/ DispatchSubmit(n)

C15_ConcurrentSubmissions ==
  /\ [](btnDisabled => InFlight # {})
  /\ [][ \A n \in Subs :
           /\ (SubmitEvent(n) /\ InFlight # {} /\ ~NothingChecked) =>
                /\ n \notin InFlight
                /\ InFlight' = InFlight \cup {n}
                /\ subs'[n].pc = "fetch" /\ ~subs'[n].sent
                /\ \A m \in InFlight : subs'[m] = subs[m]
           /\ Settles(n) =>
                /\ ~btnDisabled' /\ btnLabel' = LABEL_SUBMIT
                /\ InFlight' = InFlight \ {n}
           /\ (subs[n].pc = "fetch" /\ Settles(n)) => statusText' = MSG_NETWORK
           /\ (SettlesWith(n, SuccessRange) /\ IsSuccessBody(subs[n].res)) =>
                statusText' = MSG_SENT
           /\ (SettlesWith(n, ErrorRange) /\ HasErrorText(subs[n].res)) =>
                statusText' = subs[n].res.body.error.v ]_vars

\* the first of two requests has settled with the relay handler's failure: its
\* message is shown and the control is enabled, and the other is still in flight
C15_Witness ==
  /\ Cardinality(InFlight) = 1
  /\ ~btnDisabled
  /\ statusText = MSG_SEND_FAILED
  /\ \E n \in InFlight : subs[n].sent
====
